---------------------------- MODULE Spec2Model ----------------------------
(***************************************************************************)
(* Process dispatcher (7krasov/process-dispatcher).                        *)
(*                                                                         *)
(* The model composes the public operations of the library crate           *)
(* (Dispatcher::prepare_schedule, Dispatcher::assign_process,              *)
(* AsyncKeyedMutex, CancellationExt::with_cancellation) with the tasks     *)
(* that bin/process_dispatcher.rs spawns around them (signal task,         *)
(* scheduler relaunch loop, lock cleanup loop) and with the HTTP request   *)
(* tasks that call assign_process.  Every await of the source is a step    *)
(* boundary; code between two awaits is one step.                          *)
(*                                                                         *)
(* Time is counted in hours since 00:00 UTC of day 0.  The modelled        *)
(* window lies in the summer-time period of Europe/Berlin.                 *)
(***************************************************************************)
EXTENDS Integers, Sequences, FiniteSets, TLC

\* ------------------------------------------------------------------ bounds
NumRunSources == 1
MaxProcs == 2
StartHour == 21
MaxHour == 22
NumSupervisors == 2

\* --------------------------------------------------------------- constants
\* TIMEZONE = "Europe/Berlin": UTC+2 in the modelled window (CEST).
BerlinOffsetHours == 2
\* get_available_processes_sources_stream(supervisor_id, 10)
SourcesLimit == 10
\* get_available_source_processes_stream(source_id, 1)
ProcessesLimit == 1

DISPATCH_STATE_CREATED == "created"
DISPATCH_STATE_PENDING == "pending"
DISPATCH_STATE_PROCESSING == "processing"
DISPATCH_STATE_ERROR == "error"
DISPATCH_STATE_COMPLETED == "completed"
DISPATCH_STATE_FAILED == "failed"

DispatchState ==
    { DISPATCH_STATE_CREATED, DISPATCH_STATE_PENDING, DISPATCH_STATE_PROCESSING,
      DISPATCH_STATE_ERROR, DISPATCH_STATE_COMPLETED, DISPATCH_STATE_FAILED }

PROCESSING_MODE_REGULAR == 1
PROCESSING_MODE_SANDBOX == 2

NULL == 0

\* ------------------------------------------- DispatchState, ProcessingMode
\* A value of a Rust enum of unit variants: the enum and the variant's
\* identifier.  A panic is the outcome of a call that does not return.
Variant(enum, name) == [enum |-> enum, variant |-> name]
NoVariant == Variant("", "")
Panic(message) == Variant("panic", message)

Created == Variant("DispatchState", "Created")
Pending == Variant("DispatchState", "Pending")
Processing == Variant("DispatchState", "Processing")
Error == Variant("DispatchState", "Error")
Completed == Variant("DispatchState", "Completed")
Failed == Variant("DispatchState", "Failed")
DispatchStateVariants == { Created, Pending, Processing, Error, Completed, Failed }

\* Mutant of DispatchState_new: an unknown string is taken for Error.
DispatchState_new_lenient(value) ==
    CASE value = DISPATCH_STATE_CREATED -> Created
      [] value = DISPATCH_STATE_PENDING -> Pending
      [] value = DISPATCH_STATE_PROCESSING -> Processing
      [] value = DISPATCH_STATE_COMPLETED -> Completed
      [] value = DISPATCH_STATE_FAILED -> Failed
      [] OTHER -> Error

\* DispatchState::new(value: &str)
DispatchState_new(value) ==
    CASE value = DISPATCH_STATE_CREATED -> Created
      [] value = DISPATCH_STATE_PENDING -> Pending
      [] value = DISPATCH_STATE_PROCESSING -> Processing
      [] value = DISPATCH_STATE_ERROR -> Error
      [] value = DISPATCH_STATE_COMPLETED -> Completed
      [] value = DISPATCH_STATE_FAILED -> Failed
      [] OTHER -> Panic("Unexpected DispatchState value")

\* impl Display for DispatchState: to_string()
DispatchState_to_string(state) ==
    CASE state = Created -> DISPATCH_STATE_CREATED
      [] state = Pending -> DISPATCH_STATE_PENDING
      [] state = Processing -> DISPATCH_STATE_PROCESSING
      [] state = Error -> DISPATCH_STATE_ERROR
      [] state = Completed -> DISPATCH_STATE_COMPLETED
      [] state = Failed -> DISPATCH_STATE_FAILED

\* #[derive(Serialize)] on DispatchState, no rename attribute: a unit
\* variant is written as the JSON string of its identifier.
DispatchState_serialize(state) == state.variant

Regular == Variant("ProcessingMode", "Regular")
Sandbox == Variant("ProcessingMode", "Sandbox")
ProcessingModeVariants == { Regular, Sandbox }

\* ProcessingMode::new(value: isize)
ProcessingMode_new(value) ==
    CASE value = PROCESSING_MODE_REGULAR -> Regular
      [] value = PROCESSING_MODE_SANDBOX -> Sandbox
      [] OTHER -> Panic("Unexpected ProcessingMode value")

\* impl From<ProcessingMode> for u8: the variant's discriminant
u8_from(processing_mode) ==
    CASE processing_mode = Regular -> PROCESSING_MODE_REGULAR
      [] processing_mode = Sandbox -> PROCESSING_MODE_SANDBOX

\* #[derive(Serialize)] on ProcessingMode
ProcessingMode_serialize(processing_mode) == processing_mode.variant

\* ---------------------------------------------------------------- universe
\* sources(id, status): ids 1..NumRunSources have status 'run', one more does not.
SourceIds == 1 .. (NumRunSources + 1)
SourcesTable == [s \in SourceIds |-> IF s <= NumRunSources THEN "run" ELSE "stop"]

SupervisorIds == 1 .. NumSupervisors
Hours == StartHour .. MaxHour
Signals == {"SIGTERM", "SIGINT", "SIGQUIT"}

\* Holders of keyed-mutex handles: the scheduler task and one request task
\* per supervisor.
Scheduler == NumSupervisors + 1
Holders == {Scheduler} \cup SupervisorIds
HandleIds == 1 .. (Cardinality(Holders) + Cardinality(SourceIds))

NoRow ==
    [uuid |-> 0, source_id |-> 0, state |-> "none", mode |-> 0,
     supervisor_id |-> NULL, created_at |-> 0]

VARIABLES
    now,          \* the clock (UTC hours)
    procs,        \* dispatcher_processes as written through the PD pool: Seq of rows
    split,        \* configuration: MVP_DATABASE_URL and PD_DATABASE_URL name different databases
    sources,      \* the sources table: source id -> status
    map,          \* AsyncKeyedMutex.map: key -> handle id (0: no entry)
    strong,       \* handle id -> number of owning references (Arc strong count)
    held,         \* holder -> handle id it owns (0: none)
    since_scan,   \* history: what callers did to the map since cleanup's last scan
    cleanPc,      \* cleanup task: "scan" | "remove"
    dead_keys,    \* cleanup's local Vec of keys found dead
    sigPc,        \* signal task: "waiting" | "got" | "done"
    tail,         \* broadcast channel: number of messages sent
    schedPc,      \* scheduler task position
    schedRx,      \* scheduler's broadcast receiver: next position to read
    schedStream,  \* rows of the source id stream still to pull
    schedSource,  \* source id being processed
    schedLog,     \* what the scheduler task logged last
    asgPc,        \* supervisor -> position of its assign_process call
    asgStream,    \* supervisor -> candidate source ids still to pull
    asgSource,    \* supervisor -> candidate source id being processed
    asgRow,       \* supervisor -> process row read from the processes stream
    claimed,      \* history: <<supervisor, uuid>> of every Ok(Some(..)) returned
    token,        \* CancellationToken: cancelled
    wcPc,         \* a with_cancellation call: "idle" | "pending" | "done"
    wcOp,         \* the wrapped future: Pending polls left, and its outcome
    wcEffects,    \* how often the wrapped future was polled (ran code) in this call
    wcResult,     \* what the call returned
    wcAfter,      \* the token was already cancelled when the call started
    mainPc,       \* main of bin/process_dispatcher: the statement it is at
    hPc,          \* assign_process_handler: "idle" | "awaiting" | "called" | "responded"
    hSup,         \* Path(supervisor_id) of the request the handler serves
    hRes,         \* what dispatcher.assign_process returned to the handler
    hResp,        \* the handler's response
    codec,        \* the conversions of one row's state and mode: inputs and results
    srvPc,        \* start_http_server: "unstarted" | "bind" | "serving" | "closing" | "returned"
    srvOutcome,   \* why start_http_server returned
    srvSignalled, \* the graceful-shutdown future of axum::serve has completed
    srvInflight,  \* requests accepted and not yet answered
    srvServed     \* requests accepted so far

vars ==
    << now, procs, split, sources, map, strong, held, since_scan, cleanPc, dead_keys, sigPc, tail,
       schedPc, schedRx, schedStream, schedSource, schedLog,
       asgPc, asgStream, asgSource, asgRow, claimed,
       token, wcPc, wcOp, wcEffects, wcResult, wcAfter, mainPc,
       hPc, hSup, hRes, hResp, codec,
       srvPc, srvOutcome, srvSignalled, srvInflight, srvServed >>

dbVars == << procs, split, sources >>
mutexVars == << map, strong, held, since_scan >>
cleanVars == << cleanPc, dead_keys >>
signalVars == << sigPc, tail >>
schedVars == << schedPc, schedRx, schedStream, schedSource, schedLog >>
asgVars == << asgPc, asgStream, asgSource, asgRow, claimed >>
cancelVars == << token, wcPc, wcOp, wcEffects, wcResult, wcAfter >>
handlerVars == << hPc, hSup, hRes, hResp >>
serverVars == << srvPc, srvOutcome, srvSignalled, srvInflight, srvServed >>

\* ------------------------------------------------------------- time (chrono)
\* created_at as the database hands it out: a "%Y-%m-%d %H:%M:%S%.f" string in
\* UTC, kept here as its calendar fields.
DbDatetime(t) == [date |-> t \div 24, hour |-> t % 24]

\* NaiveDateTime::parse_from_str + from_naive_utc_and_offset + with_timezone:
\* the local date-time in the zone with the given offset.
db_to_dt(db_datetime, offset) ==
    LET created_at_utc == db_datetime.date * 24 + db_datetime.hour
    IN  created_at_utc + offset

\* Utc::now().with_timezone(Europe/Berlin)
now_dt(utc_now) == utc_now + BerlinOffsetHours

\* DateTime::date_naive: the calendar day of a local date-time.
date_naive(local) == local \div 24

\* ---------------------------------------------------------- DispatchState
\* Mutant of is_finished: error counted as finished.
is_finished_or_error(state) ==
    state \in {DISPATCH_STATE_COMPLETED, DISPATCH_STATE_FAILED, DISPATCH_STATE_ERROR}

is_finished(state) ==
    state \in {DISPATCH_STATE_COMPLETED, DISPATCH_STATE_FAILED}

\* ------------------------------------------------------------ DbRepository
RowsOf(table) == { table[i] : i \in 1 .. Len(table) }

\* dispatcher_processes of the MVP database when it is not the PD database:
\* a table the dispatcher never writes (one claimable row stands for it).
MvpSnapshot ==
    << [uuid |-> 1, source_id |-> 1, state |-> DISPATCH_STATE_CREATED,
        mode |-> PROCESSING_MODE_REGULAR, supervisor_id |-> NULL,
        created_at |-> StartHour] >>

\* What a query through mvp_connection_pool sees of dispatcher_processes.
MvpProcesses == IF split THEN MvpSnapshot ELSE procs

\* Mutant of available_source_ids_stream: the WHERE clause is left out.
all_source_ids_stream ==
    LET RECURSIVE ascending(_)
        ascending(S) ==
            IF S = {} THEN << >>
            ELSE LET m == CHOOSE x \in S : \A y \in S : x <= y
                 IN  << m >> \o ascending(S \ {m})
    IN  ascending(SourceIds)

\* SELECT id FROM sources where status = 'run' (in id order)
available_source_ids_stream ==
    LET ids == { s \in SourceIds : sources[s] = "run" }
        RECURSIVE ascending(_)
        ascending(S) ==
            IF S = {} THEN << >>
            ELSE LET m == CHOOSE x \in S : \A y \in S : x <= y
                 IN  << m >> \o ascending(S \ {m})
    IN  ascending(ids)

\* Mutant of get_latest_process_for: ORDER BY created_at ASC.
get_oldest_process_for(source_id) ==
    LET R == { r \in RowsOf(procs) : r.source_id = source_id }
    IN  IF R = {} THEN {NoRow}
        ELSE { r \in R : \A q \in R : r.created_at <= q.created_at }

\* SELECT * ... WHERE source_id = ? ORDER BY created_at DESC LIMIT 1 (PD pool):
\* the rows the query may return (any of the newest on a tie), NoRow for none.
get_latest_process_for(source_id) ==
    LET R == { r \in RowsOf(procs) : r.source_id = source_id }
    IN  IF R = {} THEN {NoRow}
        ELSE { r \in R : \A q \in R : q.created_at <= r.created_at }

\* INSERT INTO dispatcher_processes (uuid, source_id, state, mode): a fresh
\* uuid; supervisor_id and created_at take the column defaults.
insert_new_process(source_id, state, processing_mode) ==
    Append(procs,
           [uuid |-> Len(procs) + 1, source_id |-> source_id,
            state |-> DispatchState_to_string(state),
            mode |-> u8_from(processing_mode),
            supervisor_id |-> NULL, created_at |-> now])

\* The orderings of a set of rows by created_at ascending.
OrderedAsc(R) ==
    { f \in [1 .. Cardinality(R) -> R] :
        /\ \A i, j \in 1 .. Cardinality(R) : i # j => f[i] # f[j]
        /\ \A i, j \in 1 .. Cardinality(R) :
              i < j => f[i].created_at <= f[j].created_at }

Limit(seq, limit) == SubSeq(seq, 1, IF Len(seq) < limit THEN Len(seq) ELSE limit)

\* SELECT * ... WHERE source_id = ? AND state IN (created, pending)
\* ORDER BY created_at ASC LIMIT ? (MVP pool): the possible result lists.
get_available_source_processes_stream(source_id, limit) ==
    LET R == { r \in RowsOf(MvpProcesses) :
                 /\ r.source_id = source_id
                 /\ r.state \in {DISPATCH_STATE_CREATED, DISPATCH_STATE_PENDING} }
    IN  { Limit(f, limit) : f \in OrderedAsc(R) }

\* SELECT source_id ... WHERE (state IN (created, pending) AND supervisor_id
\* IS NULL) OR (state = error AND supervisor_id IS ?) ORDER BY created_at ASC
\* LIMIT ? (MVP pool): the possible lists of source ids.
get_available_processes_sources_stream(supervisor_id, limit) ==
    LET R == { r \in RowsOf(MvpProcesses) :
                 \/ /\ r.state \in {DISPATCH_STATE_CREATED, DISPATCH_STATE_PENDING}
                    /\ r.supervisor_id = NULL
                 \/ /\ r.state = DISPATCH_STATE_ERROR
                    /\ r.supervisor_id = supervisor_id }
    IN  { [i \in 1 .. Len(Limit(f, limit)) |-> f[i].source_id] : f \in OrderedAsc(R) }

\* Mutant of AssignedRow: the write also stamps created_at.
AssignedRowStamped(row, supervisor_id, assigned_state) ==
    [row EXCEPT !.supervisor_id = supervisor_id, !.state = assigned_state,
                !.created_at = now]

\* Mutant of AssignedRow: the state is written without the supervisor.
AssignedRowStateOnly(row, supervisor_id, assigned_state) ==
    [row EXCEPT !.state = assigned_state]

\* What the UPDATE writes into the row it matches.
AssignedRow(row, supervisor_id, assigned_state) ==
    [row EXCEPT !.supervisor_id = supervisor_id, !.state = assigned_state]

\* UPDATE dispatcher_processes SET supervisor_id = ?, state = ? WHERE uuid = ?
assign_process_to_supervisor(id, supervisor_id, assigned_state) ==
    [i \in 1 .. Len(procs) |->
        IF procs[i].uuid = id
        THEN AssignedRow(procs[i], supervisor_id, DispatchState_to_string(assigned_state))
        ELSE procs[i]]

\* --------------------------------------------------------- AsyncKeyedMutex
\* Weak::upgrade succeeds while some owning reference is alive.
Upgrades(h) == h # 0 /\ strong[h] > 0

\* Arc::new(V::default()) for key: a handle id that no Arc refers to and no
\* Weak of another key (the entry of key itself is overwritten).
FreeHandles(key) ==
    { h \in HandleIds : strong[h] = 0 /\ \A k \in SourceIds \ {key} : map[k] # h }
FreshHandle(key) == CHOOSE h \in FreeHandles(key) : \A g \in FreeHandles(key) : h <= g

\* get_mutex(key): the handle returned.
get_mutex_handle(key) ==
    IF Upgrades(map[key]) THEN map[key] ELSE FreshHandle(key)

\* get_mutex(key) called by holder c, which keeps the returned Arc.
get_mutex(c, key) ==
    LET h == get_mutex_handle(key)
    IN  /\ held[c] = 0
        /\ map' = [map EXCEPT ![key] = h]
        /\ strong' = [strong EXCEPT ![h] = @ + 1]
        /\ held' = [held EXCEPT ![c] = h]
        /\ since_scan' = IF cleanPc = "remove" THEN since_scan \cup {"get_mutex"}
                                               ELSE since_scan

\* Mutant of drop_lock: the Arc is forgotten, its strong count stays.
drop_lock_leaks(c) ==
    /\ held[c] # 0
    /\ held' = [held EXCEPT ![c] = 0]
    /\ since_scan' = IF cleanPc = "remove" THEN since_scan \cup {"drop"}
                                           ELSE since_scan
    /\ UNCHANGED << map, strong >>

\* drop(lock): the holder's Arc goes away.
drop_lock(c) ==
    /\ held[c] # 0
    /\ strong' = [strong EXCEPT ![held[c]] = @ - 1]
    /\ held' = [held EXCEPT ![c] = 0]
    /\ since_scan' = IF cleanPc = "remove" THEN since_scan \cup {"drop"}
                                           ELSE since_scan
    /\ UNCHANGED map

\* -------------------------------------------------------- cancellation_ext
MaxOpPolls == 2
OkValues == {"success", "data"}
IoErrors == {"test error", "refused"}

\* Result<T, E> with E an error type that has From<CancellationError> and
\* From<OriginalError> (TestError, HttpServerError): Ok(value), or Err of the
\* variant Cancelled or of the variant that wraps the original error.
Ok(value) == [kind |-> "Ok", variant |-> "", val |-> value]
Err(variant, value) == [kind |-> "Err", variant |-> variant, val |-> value]

\* The outcome of the wrapped future: Result<T, OriginalError>.
OpOutcomes ==
    { Ok(v) : v \in OkValues } \cup { Err("Original", e) : e \in IoErrors }
Ops == [polls : 0 .. MaxOpPolls, outcome : OpOutcomes]

\* impl From<CancellationError>: CancellationError.into()
from_cancellation_error == Err("Cancelled", "")

\* impl From<std::io::Error>: the original error wrapped.
from_original_error(e) == Err("Custom", e)

\* Mutant of map_err_into: an error of the operation is reported as cancelled.
map_err_cancelled(result) ==
    IF result.kind = "Ok" THEN result ELSE from_cancellation_error

\* result.map_err(Into::into)
map_err_into(result) ==
    IF result.kind = "Ok" THEN result ELSE from_original_error(result.val)

\* ------------------------------------------------------ assign_process_handler
DbErrors == {"pool timed out", "row not found"}

\* responses::AssignedProcess::new
AssignedProcess(id, source_id, state, mode, created_at, supervisor_id) ==
    [id |-> id, source_id |-> source_id, state |-> state, mode |-> mode,
     created_at |-> created_at, supervisor_id |-> supervisor_id]

\* Option<AssignedProcess>
NoProcess == AssignedProcess(0, 0, NoVariant, NoVariant, 0, NULL)
None == [some |-> FALSE, process |-> NoProcess]
Some(process) == [some |-> TRUE, process |-> process]

\* Result<Option<AssignedProcess>, sqlx::Error>
AssignOk(option) == [is_err |-> FALSE, error |-> "", option |-> option]
AssignErr(e) == [is_err |-> TRUE, error |-> e, option |-> None]

\* What assign_process can return to the handler.
AssignedProcesses ==
    { AssignedProcess(id, source_id, Processing, mode, created_at, sup) :
        id \in 1 .. MaxProcs, source_id \in SourceIds,
        mode \in ProcessingModeVariants,
        created_at \in Hours, sup \in SupervisorIds }
AssignResults ==
    { AssignErr(e) : e \in DbErrors } \cup {AssignOk(None)}
        \cup { AssignOk(Some(ap)) : ap \in AssignedProcesses }

\* chrono::serde::ts_milliseconds: a DateTime<Utc> (hours here) as integer
\* milliseconds.
MillisPerHour == 3600000
ts_milliseconds(dt) == dt * MillisPerHour

\* serde_json::json!(assigned_process): the derived Serialize of
\* AssignedProcess, field by field.
serde_json(process) ==
    [id |-> process.id,
     source_id |-> process.source_id,
     state |-> DispatchState_serialize(process.state),
     mode |-> ProcessingMode_serialize(process.mode),
     created_at |-> ts_milliseconds(process.created_at),
     supervisor_id |-> process.supervisor_id]
NoJson == serde_json(NoProcess)

\* (StatusCode, Json(..)) of the handler.
Response(status, message, json) == [status |-> status, message |-> message, json |-> json]
NoResponse == Response("none", "", NoJson)

\* Mutant of assign_process_handler: an empty result is answered like a claim.
assign_process_handler_none_ok(res) ==
    IF res.is_err
    THEN Response("INTERNAL_SERVER_ERROR", "Failed to assign process: " \o res.error, NoJson)
    ELSE Response("OK", "", serde_json(res.option.process))

\* assign_process_handler, after dispatcher.assign_process returned res.
assign_process_handler(res) ==
    IF res.is_err
    THEN Response("INTERNAL_SERVER_ERROR", "Failed to assign process: " \o res.error, NoJson)
    ELSE IF ~ res.option.some
         THEN Response("NO_CONTENT", "No available processes to assign", NoJson)
         ELSE Response("OK", "", serde_json(res.option.process))

\* ------------------------------------- conversions of one row's state, mode
\* The state and mode conversions as the repository and assign_process use
\* them: a value held in memory is written with to_string() / u8::from, and
\* what is read from a row is parsed with DispatchState::new /
\* ProcessingMode::new.
Codec(state, state_string, state_from, state_parsed, mode, mode_int, mode_from, mode_parsed) ==
    [state |-> state, state_string |-> state_string, state_from |-> state_from,
     state_parsed |-> state_parsed,
     mode |-> mode, mode_int |-> mode_int, mode_from |-> mode_from,
     mode_parsed |-> mode_parsed]
NoCodec == Codec(NoVariant, "", "none", NoVariant, NoVariant, 0, "none", NoVariant)

\* -------------------------------------------------------------------- Init
Init ==
    /\ now = StartHour
    /\ procs = << >>
    /\ split \in BOOLEAN
    /\ sources = SourcesTable
    /\ map = [k \in SourceIds |-> 0]
    /\ strong = [h \in HandleIds |-> 0]
    /\ held = [c \in Holders |-> 0]
    /\ since_scan = {}
    /\ cleanPc = "scan"
    /\ dead_keys = {}
    /\ sigPc = "waiting"
    /\ tail = 0
    /\ schedPc = "spawned"
    /\ schedRx = 0
    /\ schedStream = << >>
    /\ schedSource = 0
    /\ schedLog = "none"
    /\ asgPc = [a \in SupervisorIds |-> "idle"]
    /\ asgStream = [a \in SupervisorIds |-> << >>]
    /\ asgSource = [a \in SupervisorIds |-> 0]
    /\ asgRow = [a \in SupervisorIds |-> NoRow]
    /\ claimed = {}
    /\ token = FALSE
    /\ wcPc = "idle"
    /\ wcOp = [polls |-> 0, outcome |-> Ok("success")]
    /\ wcEffects = 0
    /\ wcResult = Ok("")
    /\ wcAfter = FALSE
    /\ mainPc = "serving"
    /\ hPc = "idle"
    /\ hSup = 0
    /\ hRes = AssignOk(None)
    /\ hResp = NoResponse
    /\ codec = NoCodec
    /\ srvPc = "unstarted"
    /\ srvOutcome = "none"
    /\ srvSignalled = FALSE
    /\ srvInflight = 0
    /\ srvServed = 0

\* ------------------------------------------------------------- environment
\* The clock advances.
AdvanceClock ==
    /\ now < MaxHour
    /\ now' = now + 1
    /\ UNCHANGED << dbVars, mutexVars, cleanVars, cancelVars, mainPc, codec, serverVars, handlerVars, signalVars, schedVars, asgVars >>

\* The lifecycle the supervisors and the queue owner drive from outside:
\* created -> pending, processing -> error | completed | failed.
ExternalNext(state) ==
    IF state = DISPATCH_STATE_CREATED THEN {DISPATCH_STATE_PENDING}
    ELSE IF state = DISPATCH_STATE_PROCESSING
         THEN {DISPATCH_STATE_ERROR, DISPATCH_STATE_COMPLETED, DISPATCH_STATE_FAILED}
         ELSE {}

ExternalSetState ==
    \E i \in 1 .. Len(procs) : \E st \in ExternalNext(procs[i].state) :
        /\ procs' = [procs EXCEPT ![i].state = st]
        /\ UNCHANGED << now, split, sources, mutexVars, cleanVars, cancelVars, mainPc, codec, serverVars, handlerVars, signalVars, schedVars, asgVars >>

\* ------------------------------------------- bin/process_dispatcher.rs: signals
\* The operating system delivers one of the three signals.  The signal task
\* leaves its select! on the first; it listens to no later one.
Signal ==
    \E sig \in Signals :
        /\ sigPc' = IF sigPc = "waiting" THEN "got" ELSE sigPc
        /\ UNCHANGED << now, dbVars, mutexVars, cleanVars, cancelVars, mainPc, codec, serverVars, handlerVars, tail, schedVars, asgVars >>

\* Mutant of signal_task_after_send: the task waits for the next signal.
signal_task_rearmed == "waiting"

\* After the send the signal task's async block ends.
signal_task_after_send == "done"

\* shutdown_tx_clone.send(()): one message enters the broadcast channel.
SignalSend ==
    /\ sigPc = "got"
    /\ tail' = tail + 1
    /\ sigPc' = signal_task_after_send
    /\ UNCHANGED << now, dbVars, mutexVars, cleanVars, cancelVars, mainPc, codec, serverVars, handlerVars, schedVars, asgVars >>

\* broadcast::Receiver::recv is ready when a message lies at the receiver's
\* position, and takes it.
RecvReady(rx) == rx < tail

\* ------------------------------------------------------- scheduler task
\* The spawned task starts: shutdown_tx_for_schedule.subscribe().  A new
\* receiver sees only the messages sent after it was created.
SchedSubscribe ==
    /\ schedPc = "spawned"
    /\ schedRx' = tail
    /\ schedPc' = "relaunch"
    /\ UNCHANGED << now, dbVars, mutexVars, cleanVars, cancelVars, mainPc, codec, serverVars, handlerVars, signalVars,
                    schedStream, schedSource, schedLog, asgVars >>

\* Mutant of schedule_loop_after: every Err leaves the loop.
schedule_loop_breaks_on_error(result) ==
    IF result \in {"shutdown", "cycle_error"} THEN "stopped" ELSE "relaunch"

\* The relaunch loop after prepare_schedule returned: break on
\* Err(TerminatingSignalReceived), log and go round on anything else.
schedule_loop_after(result) ==
    IF result = "shutdown" THEN "stopped" ELSE "relaunch"

\* prepare_schedule, first select!: shutdown_rx.recv() against opening the
\* stream (which is ready at once).  select! polls its branches in random
\* order, so a waiting message may or may not be the branch taken.
SchedOpenStream ==
    /\ schedPc = "relaunch"
    /\ \/ /\ RecvReady(schedRx)
          /\ schedRx' = schedRx + 1
          /\ schedPc' = schedule_loop_after("shutdown")
          /\ schedLog' = "shutdown"
          /\ UNCHANGED schedStream
       \/ /\ schedStream' = available_source_ids_stream
          /\ schedPc' = "next"
          /\ UNCHANGED << schedRx, schedLog >>
    /\ UNCHANGED << now, dbVars, mutexVars, cleanVars, cancelVars, mainPc, codec, serverVars, handlerVars, signalVars,
                    schedSource, asgVars >>

\* prepare_schedule, second select!: shutdown_rx.recv() against try_next().
SchedNext ==
    /\ schedPc = "next"
    /\ \/ \* the recv branch: Err(TerminatingSignalReceived), the relaunch loop breaks
          /\ RecvReady(schedRx)
          /\ schedRx' = schedRx + 1
          /\ schedPc' = schedule_loop_after("shutdown")
          /\ schedLog' = "shutdown"
          /\ UNCHANGED << schedStream, schedSource, mutexVars >>
       \/ \* try_next fails: Err(DbError), logged by the relaunch loop
          /\ schedPc' = schedule_loop_after("cycle_error")
          /\ schedLog' = "cycle_error"
          /\ UNCHANGED << schedRx, schedStream, schedSource, mutexVars >>
       \/ \* the stream is exhausted: Ok(()), "Cycle completed successfully"
          /\ schedStream = << >>
          /\ schedPc' = schedule_loop_after("cycle_ok")
          /\ schedLog' = "cycle_ok"
          /\ UNCHANGED << schedRx, schedStream, schedSource, mutexVars >>
       \/ \* a row: get_mutex(source_id), then process_source starts
          /\ schedStream # << >>
          /\ schedSource' = Head(schedStream)
          /\ schedStream' = Tail(schedStream)
          /\ get_mutex(Scheduler, Head(schedStream))
          /\ schedPc' = "latest"
          /\ UNCHANGED << schedRx, schedLog >>
    /\ UNCHANGED << now, dbVars, cleanVars, cancelVars, mainPc, codec, serverVars, handlerVars, signalVars, asgVars >>

\* Mutant of process_source_skips: the same-day comparison is left out.
process_source_skips_active_only(process, utc_now) ==
    process # NoRow /\ ~ is_finished(process.state)

\* process_source lines 101-143: whether the latest process makes it return
\* without inserting.
process_source_skips(process, utc_now) ==
    /\ process # NoRow
    /\ \/ ~ is_finished(process.state)
       \/ date_naive(now_dt(utc_now))
            = date_naive(db_to_dt(DbDatetime(process.created_at), BerlinOffsetHours))

\* Mutant of tick_after_source: an Err of process_source is passed on with ?
\* and ends the tick.
tick_after_source_propagates(result) ==
    IF result = "error" THEN schedule_loop_after("cycle_error") ELSE "next"

\* prepare_schedule lines 88-92: the result of process_source is bound to
\* res, an Err is logged, the lock is dropped and the while loop goes on
\* with the next pull.
tick_after_source(result) == "next"

\* process_source up to its decision: get_latest_process_for(source_id).await
SchedLatest ==
    /\ schedPc = "latest"
    /\ \/ \* the query fails: process_source returns Err, logged; drop(lock)
          /\ schedLog' = "error"
          /\ schedPc' = tick_after_source("error")
          /\ drop_lock(Scheduler)
       \/ \E process \in get_latest_process_for(schedSource) :
            IF process_source_skips(process, now)
            THEN /\ schedLog' = "skipped"
                 /\ schedPc' = tick_after_source("skipped")
                 /\ drop_lock(Scheduler)
            ELSE /\ schedPc' = "insert"
                 /\ UNCHANGED << schedLog, mutexVars >>
    /\ UNCHANGED << now, dbVars, cleanVars, cancelVars, mainPc, codec, serverVars, handlerVars, signalVars, schedRx, schedStream,
                    schedSource, asgVars >>

\* process_source: insert_new_process(source_id, Created, Regular).await
SchedInsert ==
    /\ schedPc = "insert"
    /\ \/ \* the insert fails: process_source returns Err, logged
          /\ schedLog' = "error"
          /\ UNCHANGED procs
       \/ /\ Len(procs) < MaxProcs
          /\ procs' = insert_new_process(schedSource, Created, Regular)
          /\ schedLog' = "inserted"
    /\ schedPc' = tick_after_source(schedLog')
    /\ drop_lock(Scheduler)
    /\ UNCHANGED << now, split, sources, cleanVars, cancelVars, mainPc, codec, serverVars, handlerVars, signalVars, schedRx, schedStream,
                    schedSource, asgVars >>

\* ------------------------------------------- assign_process (request task)
\* The value assign_process returns for the row it assigned.
assigned_process(a) ==
    AssignedProcess(asgRow[a].uuid, asgSource[a], Processing,
                    ProcessingMode_new(asgRow[a].mode),
                    db_to_dt(DbDatetime(asgRow[a].created_at), 0), a)

\* The result reaches the handler that awaits assign_process(a), if one does.
Deliver(a, res) ==
    IF hPc = "awaiting" /\ hSup = a
    THEN /\ hPc' = "called"
         /\ hRes' = res
         /\ UNCHANGED << hSup, hResp >>
    ELSE UNCHANGED handlerVars

\* Mutant of AsgReturn: the call goes on with the next source instead.
AsgGoOn(a, res) ==
    /\ asgPc' = [asgPc EXCEPT ![a] = "sources_next"]
    /\ UNCHANGED << asgStream, asgSource, asgRow, handlerVars >>

\* assign_process returns res: the request task's locals are gone.
AsgReturn(a, res) ==
    /\ Deliver(a, res)
    /\ asgPc' = [asgPc EXCEPT ![a] = "idle"]
    /\ asgStream' = [asgStream EXCEPT ![a] = << >>]
    /\ asgSource' = [asgSource EXCEPT ![a] = 0]
    /\ asgRow' = [asgRow EXCEPT ![a] = NoRow]

\* POST /assign_process/{supervisor_id}: assign_process(supervisor_id) is
\* called; creating the sources stream sends nothing yet.
AsgCall(a) ==
    /\ asgPc[a] = "idle"
    /\ asgPc' = [asgPc EXCEPT ![a] = "sources_first"]
    /\ UNCHANGED << now, dbVars, mutexVars, cleanVars, cancelVars, mainPc, codec, serverVars, handlerVars, signalVars, schedVars,
                    asgStream, asgSource, asgRow, claimed >>

\* A candidate source id was pulled: get_mutex(source_id), then the processes
\* stream of that source is created.
AsgTakeSource(a, list) ==
    /\ asgSource' = [asgSource EXCEPT ![a] = Head(list)]
    /\ asgStream' = [asgStream EXCEPT ![a] = Tail(list)]
    /\ get_mutex(a, Head(list))
    /\ asgPc' = [asgPc EXCEPT ![a] = "processes"]
    /\ UNCHANGED << asgRow, claimed, handlerVars >>

\* sources_stream.try_next().await?, first pull: the query runs.
AsgSourcesFirst(a) ==
    /\ asgPc[a] = "sources_first"
    /\ \/ /\ \E e \in DbErrors : AsgReturn(a, AssignErr(e))
          /\ UNCHANGED << mutexVars, claimed >>
       \/ \E list \in get_available_processes_sources_stream(a, SourcesLimit) :
            IF list = << >>
            THEN /\ AsgReturn(a, AssignOk(None))
                 /\ UNCHANGED << mutexVars, claimed >>
            ELSE AsgTakeSource(a, list)
    /\ UNCHANGED << now, dbVars, cleanVars, cancelVars, mainPc, codec, serverVars, signalVars, schedVars >>

\* sources_stream.try_next().await?, later pulls.
AsgSourcesNext(a) ==
    /\ asgPc[a] = "sources_next"
    /\ \/ /\ \E e \in DbErrors : AsgReturn(a, AssignErr(e))
          /\ UNCHANGED << mutexVars, claimed >>
       \/ IF asgStream[a] = << >>
          THEN /\ AsgReturn(a, AssignOk(None))
               /\ UNCHANGED << mutexVars, claimed >>
          ELSE AsgTakeSource(a, asgStream[a])
    /\ UNCHANGED << now, dbVars, cleanVars, cancelVars, mainPc, codec, serverVars, signalVars, schedVars >>

\* assign_process line 218: "we should get only active and unassigned process"
assignable(row) == ~ is_finished(row.state) /\ row.supervisor_id = NULL

\* processes_stream.try_next().await?: the query of the source's claimable
\* processes runs (LIMIT 1); a row that is not assignable is followed by the
\* end of the stream.
AsgProcesses(a) ==
    /\ asgPc[a] = "processes"
    /\ \/ /\ \E e \in DbErrors : AsgReturn(a, AssignErr(e))
          /\ drop_lock(a)
          /\ UNCHANGED claimed
       \/ \E rows \in get_available_source_processes_stream(asgSource[a], ProcessesLimit) :
            IF rows # << >> /\ assignable(rows[1])
            THEN /\ asgRow' = [asgRow EXCEPT ![a] = rows[1]]
                 /\ asgPc' = [asgPc EXCEPT ![a] = "assign"]
                 /\ UNCHANGED << asgStream, asgSource, claimed, mutexVars, handlerVars >>
            ELSE /\ asgPc' = [asgPc EXCEPT ![a] = "sources_next"]
                 /\ drop_lock(a)
                 /\ UNCHANGED << asgStream, asgSource, asgRow, claimed, handlerVars >>
    /\ UNCHANGED << now, dbVars, cleanVars, cancelVars, mainPc, codec, serverVars, signalVars, schedVars >>

\* assign_process_to_supervisor(process_id, supervisor_id, Processing).await?
\* and the return of the AssignedProcess.
AsgAssign(a) ==
    /\ asgPc[a] = "assign"
    /\ \/ /\ \E e \in DbErrors : AsgReturn(a, AssignErr(e))
          /\ UNCHANGED << procs, claimed >>
       \/ /\ procs' = assign_process_to_supervisor(asgRow[a].uuid, a, Processing)
          /\ AsgReturn(a, AssignOk(Some(assigned_process(a))))
          /\ claimed' = claimed \cup { << a, asgRow[a].uuid >> }
    /\ drop_lock(a)
    /\ UNCHANGED << now, split, sources, cleanVars, cancelVars, mainPc, codec, serverVars, signalVars, schedVars >>

\* ------------------------------------------- start_clean_source_locks task
\* Mutant of collect_dead_keys: the pass stops at the first dead key.
collect_first_dead_key ==
    LET D == { k \in SourceIds : map[k] # 0 /\ ~ Upgrades(map[k]) }
    IN  { k \in D : \A j \in D : k <= j }

\* map.iter().filter(|entry| entry.value().upgrade().is_none()) .. collect()
collect_dead_keys == { k \in SourceIds : map[k] # 0 /\ ~ Upgrades(map[k]) }

\* cleanup(), first half: the keys whose Weak no longer upgrades are collected.
CleanupScan ==
    /\ cleanPc = "scan"
    /\ dead_keys' = collect_dead_keys
    /\ cleanPc' = "remove"
    /\ since_scan' = {}
    /\ UNCHANGED << now, dbVars, map, strong, held, cancelVars, mainPc, codec, serverVars, handlerVars, signalVars, schedVars, asgVars >>

\* cleanup(), second half: self.map.remove(&k) for each collected key.
CleanupRemove ==
    /\ cleanPc = "remove"
    /\ \E k \in dead_keys :
        /\ map' = [map EXCEPT ![k] = 0]
        /\ dead_keys' = dead_keys \ {k}
    /\ UNCHANGED << now, dbVars, strong, held, since_scan, cleanPc, cancelVars, mainPc, codec, serverVars, handlerVars, signalVars, schedVars, asgVars >>

\* cleanup() returned; tokio::time::sleep(30 s), then the next round.
CleanupSleep ==
    /\ cleanPc = "remove"
    /\ dead_keys = {}
    /\ cleanPc' = "scan"
    /\ UNCHANGED << now, dbVars, mutexVars, dead_keys, cancelVars, mainPc, codec, serverVars, handlerVars, signalVars, schedVars, asgVars >>

\* --------------------------------------------------------- with_cancellation
\* token.cancel()
Cancel ==
    /\ token' = TRUE
    /\ UNCHANGED << now, dbVars, mutexVars, cleanVars, signalVars, schedVars, asgVars,
                    mainPc, codec, serverVars, handlerVars,
                    wcPc, wcOp, wcEffects, wcResult, wcAfter >>

\* op.with_cancellation(&token, context).await starts.
WcCall ==
    /\ wcPc \in {"idle", "done"}
    /\ \E op \in Ops : wcOp' = op
    /\ wcPc' = "pending"
    /\ wcEffects' = 0
    /\ wcResult' = Ok("")
    /\ wcAfter' = token
    /\ UNCHANGED << now, dbVars, mutexVars, cleanVars, signalVars, schedVars, asgVars,
                    mainPc, codec, serverVars, handlerVars,
                    token >>

\* The call completes with a result.
WcDone(result) ==
    /\ wcPc' = "done"
    /\ wcResult' = result

\* The wrapped future is polled: it runs, and is Ready when no Pending poll
\* is left.
WcPollOp ==
    /\ wcEffects' = wcEffects + 1
    /\ wcOp' = [wcOp EXCEPT !.polls = IF @ = 0 THEN 0 ELSE @ - 1]

\* One poll of the tokio::select! of with_cancellation.  select! (without
\* "biased;") starts at a random branch: token.cancelled() or the wrapped
\* future; the first branch found Ready is taken.
WcPoll ==
    /\ wcPc = "pending"
    /\ \E first \in {"cancelled", "self"} :
        IF first = "cancelled" /\ token
        THEN /\ WcDone(from_cancellation_error)
             /\ UNCHANGED << wcOp, wcEffects >>
        ELSE /\ WcPollOp
             /\ IF wcOp.polls = 0
                THEN WcDone(map_err_into(wcOp.outcome))
                ELSE IF token
                     THEN WcDone(from_cancellation_error)
                     ELSE UNCHANGED << wcPc, wcResult >>
    /\ UNCHANGED << now, dbVars, mutexVars, cleanVars, signalVars, schedVars, asgVars,
                    mainPc, codec, serverVars, handlerVars,
                    token, wcAfter >>

CancelNext ==
    \/ Cancel
    \/ WcCall
    \/ WcPoll

CancelSpec == Init /\ [][CancelNext]_vars

\* ------------------------------------------- AsyncKeyedMutex with its callers
\* The key a holder took its handle for.
KeyOf(c) == IF c = Scheduler THEN schedSource ELSE asgSource[c]

\* A caller runs get_mutex(k) and keeps the handle.
Acquire(c, k) ==
    /\ get_mutex(c, k)
    /\ IF c = Scheduler
       THEN /\ schedSource' = k
            /\ UNCHANGED asgSource
       ELSE /\ asgSource' = [asgSource EXCEPT ![c] = k]
            /\ UNCHANGED schedSource
    /\ UNCHANGED << now, dbVars, cleanVars, cancelVars, mainPc, codec, serverVars, handlerVars, signalVars,
                    schedPc, schedRx, schedStream, schedLog,
                    asgPc, asgStream, asgRow, claimed >>

\* A caller drops the handle it kept.
Release(c) ==
    /\ drop_lock(c)
    /\ UNCHANGED << now, dbVars, cleanVars, cancelVars, mainPc, codec, serverVars, handlerVars, signalVars, schedVars, asgVars >>

MutexNext ==
    \/ \E c \in Holders : \E k \in SourceIds : Acquire(c, k)
    \/ \E c \in Holders : Release(c)
    \/ CleanupScan
    \/ CleanupRemove
    \/ CleanupSleep

MutexSpec == Init /\ [][MutexNext]_vars

\* ------------------------------------------ POST /assign_process/{supervisor_id}
\* A request arrives and state.dispatcher.assign_process(supervisor_id).await
\* returns.
HandlerCall ==
    /\ hPc \in {"idle", "responded"}
    /\ \E res \in AssignResults : hRes' = res
    /\ hPc' = "called"
    /\ hResp' = NoResponse
    /\ UNCHANGED << now, dbVars, mutexVars, cleanVars, cancelVars, mainPc, codec, serverVars, signalVars, schedVars, asgVars, hSup >>

\* The handler answers.
HandlerRespond ==
    /\ hPc = "called"
    /\ hResp' = assign_process_handler(hRes)
    /\ hPc' = "responded"
    /\ UNCHANGED << now, dbVars, mutexVars, cleanVars, cancelVars, mainPc, codec, serverVars, signalVars, schedVars, asgVars, hSup, hRes >>

HandlerNext ==
    \/ HandlerCall
    \/ HandlerRespond

HandlerSpec == Init /\ [][HandlerNext]_vars

\* ------------------------------------------- one request at a time
AssignMaxRows == 2

\* The rows dispatcher_processes can hold (uuid aside): a row that was never
\* assigned is created or pending; the other writers of the table may leave
\* any state on a row that carries a supervisor.
StoredRows ==
    { [uuid |-> 0, source_id |-> s, state |-> st, mode |-> PROCESSING_MODE_REGULAR,
       supervisor_id |-> sup, created_at |-> t] :
        s \in SourceIds, st \in DispatchState, sup \in {NULL} \cup SupervisorIds, t \in Hours }
    \ { r \in [uuid : {0}, source_id : SourceIds, state : DispatchState,
               mode : {PROCESSING_MODE_REGULAR}, supervisor_id : {NULL}, created_at : Hours] :
          r.state \notin {DISPATCH_STATE_CREATED, DISPATCH_STATE_PENDING} }

\* The tables of up to AssignMaxRows rows, in insert order: uuid is the
\* position, created_at does not decrease.
StoredTables ==
    UNION { { [i \in 1 .. n |-> [f[i] EXCEPT !.uuid = i]] :
                f \in { g \in [1 .. n -> StoredRows] :
                          \A i, j \in 1 .. n : i < j => g[i].created_at <= g[j].created_at } } :
            n \in 0 .. AssignMaxRows }

\* The HTTP server serves over a table as found; no other task runs.
AssignInit ==
    /\ now = MaxHour
    /\ procs \in StoredTables
    /\ split \in BOOLEAN
    /\ sources = SourcesTable
    /\ map = [k \in SourceIds |-> 0]
    /\ strong = [h \in HandleIds |-> 0]
    /\ held = [c \in Holders |-> 0]
    /\ since_scan = {}
    /\ cleanPc = "unspawned"
    /\ dead_keys = {}
    /\ sigPc = "unspawned"
    /\ tail = 0
    /\ schedPc = "unspawned"
    /\ schedRx = 0
    /\ schedStream = << >>
    /\ schedSource = 0
    /\ schedLog = "none"
    /\ asgPc = [a \in SupervisorIds |-> "idle"]
    /\ asgStream = [a \in SupervisorIds |-> << >>]
    /\ asgSource = [a \in SupervisorIds |-> 0]
    /\ asgRow = [a \in SupervisorIds |-> NoRow]
    /\ claimed = {}
    /\ token = FALSE
    /\ wcPc = "idle"
    /\ wcOp = [polls |-> 0, outcome |-> Ok("success")]
    /\ wcEffects = 0
    /\ wcResult = Ok("")
    /\ wcAfter = FALSE
    /\ mainPc = "serving"
    /\ hPc = "idle"
    /\ hSup = 0
    /\ hRes = AssignOk(None)
    /\ hResp = NoResponse
    /\ codec = NoCodec
    /\ srvPc = "unstarted"
    /\ srvOutcome = "none"
    /\ srvSignalled = FALSE
    /\ srvInflight = 0
    /\ srvServed = 0

\* POST /assign_process/{a}: the handler calls
\* state.dispatcher.assign_process(a) and awaits it.
HandlerAssign(a) ==
    /\ hPc \in {"idle", "responded"}
    /\ asgPc[a] = "idle"
    /\ hPc' = "awaiting"
    /\ hSup' = a
    /\ hRes' = AssignOk(None)
    /\ hResp' = NoResponse
    /\ asgPc' = [asgPc EXCEPT ![a] = "sources_first"]
    /\ UNCHANGED << now, dbVars, mutexVars, cleanVars, cancelVars, mainPc, codec, serverVars, signalVars, schedVars,
                    asgStream, asgSource, asgRow, claimed >>

AssignNext ==
    \/ \E a \in SupervisorIds : HandlerAssign(a)
    \/ \E a \in SupervisorIds : AsgSourcesFirst(a)
    \/ \E a \in SupervisorIds : AsgSourcesNext(a)
    \/ \E a \in SupervisorIds : AsgProcesses(a)
    \/ \E a \in SupervisorIds : AsgAssign(a)
    \/ HandlerRespond

AssignSpec == AssignInit /\ [][AssignNext]_vars

\* ------------------------------------------- main of bin/process_dispatcher
\* dispatcher_processes as main may find it at startup: empty, or one row
\* left by an earlier run.
StoredRow(state) ==
    [uuid |-> 1, source_id |-> 1, state |-> state, mode |-> PROCESSING_MODE_REGULAR,
     supervisor_id |-> IF state \in {DISPATCH_STATE_CREATED, DISPATCH_STATE_PENDING}
                       THEN NULL ELSE 1,
     created_at |-> StartHour]
TablesAtStartup == {<< >>} \cup { << StoredRow(state) >> : state \in DispatchState }

\* The state when main begins: no task is spawned yet.
MainInit ==
    /\ now = StartHour
    /\ procs \in TablesAtStartup
    /\ split \in BOOLEAN
    /\ sources = SourcesTable
    /\ map = [k \in SourceIds |-> 0]
    /\ strong = [h \in HandleIds |-> 0]
    /\ held = [c \in Holders |-> 0]
    /\ since_scan = {}
    /\ cleanPc = "unspawned"
    /\ dead_keys = {}
    /\ sigPc = "unspawned"
    /\ tail = 0
    /\ schedPc = "unspawned"
    /\ schedRx = 0
    /\ schedStream = << >>
    /\ schedSource = 0
    /\ schedLog = "none"
    /\ asgPc = [a \in SupervisorIds |-> "idle"]
    /\ asgStream = [a \in SupervisorIds |-> << >>]
    /\ asgSource = [a \in SupervisorIds |-> 0]
    /\ asgRow = [a \in SupervisorIds |-> NoRow]
    /\ claimed = {}
    /\ token = FALSE
    /\ wcPc = "idle"
    /\ wcOp = [polls |-> 0, outcome |-> Ok("success")]
    /\ wcEffects = 0
    /\ wcResult = Ok("")
    /\ wcAfter = FALSE
    /\ mainPc = "init"
    /\ hPc = "idle"
    /\ hSup = 0
    /\ hRes = AssignOk(None)
    /\ hResp = NoResponse
    /\ codec = NoCodec
    /\ srvPc = "unstarted"
    /\ srvOutcome = "none"
    /\ srvSignalled = FALSE
    /\ srvInflight = 0
    /\ srvServed = 0

\* tokio::task::spawn of the signal task: the three handlers are installed
\* and the task waits in its select!.
MainSpawnSignals ==
    /\ mainPc = "init"
    /\ mainPc' = "signals"
    /\ sigPc' = "waiting"
    /\ UNCHANGED << now, dbVars, mutexVars, cleanVars, cancelVars, codec, serverVars, handlerVars, tail, schedVars, asgVars >>

\* arc_dispatcher.clone().start_clean_source_locks().await: the cleanup task
\* is spawned and main awaits its JoinHandle.  The task is a loop without an
\* exit, so the await never returns and main stays at this statement: the
\* statements after it (the scheduler task, start_http_server, the return of
\* main) are never reached and have no action here.
MainStartCleanLocks ==
    /\ mainPc = "signals"
    /\ mainPc' = "clean_locks"
    /\ cleanPc' = "scan"
    /\ UNCHANGED << now, dbVars, mutexVars, dead_keys, cancelVars, codec, serverVars, handlerVars, signalVars, schedVars, asgVars >>

\* No caller of get_mutex runs, so cleanup() collects no key and its remove
\* loop has nothing to do.  A signal that arrives before the handlers are
\* installed ends the process by its default action and is not followed here.
MainNext ==
    \/ MainSpawnSignals
    \/ MainStartCleanLocks
    \/ Signal
    \/ SignalSend
    \/ CleanupScan
    \/ CleanupSleep
    \/ AdvanceClock
    \/ ExternalSetState

\* The tokio runtime runs every spawned task and main itself; signals, the
\* clock and the other writers of the database are not under its control.
MainSpec ==
    /\ MainInit
    /\ [][MainNext]_vars
    /\ WF_vars(MainSpawnSignals)
    /\ WF_vars(MainStartCleanLocks)
    /\ WF_vars(SignalSend)
    /\ WF_vars(CleanupScan)
    /\ WF_vars(CleanupSleep)

\* ------------------------------------------------- the scheduler by itself
\* The scheduler task and the signal task over every sources table, the one
\* without a 'run' source included; no request is served.
SourcesTables == [SourceIds -> {"run", "stop"}]

SchedInit ==
    /\ now = StartHour
    /\ procs = << >>
    /\ split \in BOOLEAN
    /\ sources \in SourcesTables
    /\ map = [k \in SourceIds |-> 0]
    /\ strong = [h \in HandleIds |-> 0]
    /\ held = [c \in Holders |-> 0]
    /\ since_scan = {}
    /\ cleanPc = "unspawned"
    /\ dead_keys = {}
    /\ sigPc = "waiting"
    /\ tail = 0
    /\ schedPc = "spawned"
    /\ schedRx = 0
    /\ schedStream = << >>
    /\ schedSource = 0
    /\ schedLog = "none"
    /\ asgPc = [a \in SupervisorIds |-> "idle"]
    /\ asgStream = [a \in SupervisorIds |-> << >>]
    /\ asgSource = [a \in SupervisorIds |-> 0]
    /\ asgRow = [a \in SupervisorIds |-> NoRow]
    /\ claimed = {}
    /\ token = FALSE
    /\ wcPc = "idle"
    /\ wcOp = [polls |-> 0, outcome |-> Ok("success")]
    /\ wcEffects = 0
    /\ wcResult = Ok("")
    /\ wcAfter = FALSE
    /\ mainPc = "serving"
    /\ hPc = "idle"
    /\ hSup = 0
    /\ hRes = AssignOk(None)
    /\ hResp = NoResponse
    /\ codec = NoCodec
    /\ srvPc = "unstarted"
    /\ srvOutcome = "none"
    /\ srvSignalled = FALSE
    /\ srvInflight = 0
    /\ srvServed = 0

SchedSpecNext ==
    \/ AdvanceClock
    \/ ExternalSetState
    \/ Signal
    \/ SignalSend
    \/ SchedSubscribe
    \/ SchedOpenStream
    \/ SchedNext
    \/ SchedLatest
    \/ SchedInsert

SchedSpec == SchedInit /\ [][SchedSpecNext]_vars

\* ------------------------------------------------------- start_http_server
\* Requests that reach the listener during one run.
MaxRequests == 2

\* start_http_server is called; no task but the holder of the token runs.
ServerInit ==
    /\ now = StartHour
    /\ procs = << >>
    /\ split = FALSE
    /\ sources = SourcesTable
    /\ map = [k \in SourceIds |-> 0]
    /\ strong = [h \in HandleIds |-> 0]
    /\ held = [c \in Holders |-> 0]
    /\ since_scan = {}
    /\ cleanPc = "unspawned"
    /\ dead_keys = {}
    /\ sigPc = "unspawned"
    /\ tail = 0
    /\ schedPc = "unspawned"
    /\ schedRx = 0
    /\ schedStream = << >>
    /\ schedSource = 0
    /\ schedLog = "none"
    /\ asgPc = [a \in SupervisorIds |-> "idle"]
    /\ asgStream = [a \in SupervisorIds |-> << >>]
    /\ asgSource = [a \in SupervisorIds |-> 0]
    /\ asgRow = [a \in SupervisorIds |-> NoRow]
    /\ claimed = {}
    /\ token = FALSE
    /\ wcPc = "idle"
    /\ wcOp = [polls |-> 0, outcome |-> Ok("success")]
    /\ wcEffects = 0
    /\ wcResult = Ok("")
    /\ wcAfter = FALSE
    /\ mainPc = "serving"
    /\ hPc = "idle"
    /\ hSup = 0
    /\ hRes = AssignOk(None)
    /\ hResp = NoResponse
    /\ codec = NoCodec
    /\ srvPc = "bind"
    /\ srvOutcome = "none"
    /\ srvSignalled = FALSE
    /\ srvInflight = 0
    /\ srvServed = 0

ServerFrame ==
    UNCHANGED << now, dbVars, mutexVars, cleanVars, cancelVars, mainPc, handlerVars,
                 codec, signalVars, schedVars, asgVars >>

\* TcpListener::bind(addr).with_cancellation::<HttpServerError>(token, ..)
\* is called: the one with_cancellation call of the server.
SrvBind ==
    /\ srvPc = "bind"
    /\ wcPc = "idle"
    /\ WcCall

\* The match on the result of the bind: Ok(l) goes on to axum::serve, both
\* Err arms return.
SrvBound ==
    /\ srvPc = "bind"
    /\ wcPc = "done"
    /\ IF wcResult.kind = "Ok"
       THEN srvPc' = "serving" /\ UNCHANGED srvOutcome
       ELSE /\ srvPc' = "returned"
            /\ srvOutcome' = IF wcResult = from_cancellation_error
                              THEN "bind_cancelled" ELSE "bind_failed"
    /\ UNCHANGED << srvSignalled, srvInflight, srvServed >>
    /\ ServerFrame

\* shutdown_future: shutdown_token.cancelled().await has completed, in the
\* task axum::serve polls it in.
SrvSignal ==
    /\ srvPc = "serving"
    /\ token
    /\ ~ srvSignalled
    /\ srvSignalled' = TRUE
    /\ UNCHANGED << srvPc, srvOutcome, srvInflight, srvServed >>
    /\ ServerFrame

\* axum::serve's accept loop takes a connection: it selects between
\* listener.accept() and the completion of the shutdown future, and a
\* connection that is waiting can be the branch taken.
SrvAccept ==
    /\ srvPc = "serving"
    /\ srvServed < MaxRequests
    /\ srvServed' = srvServed + 1
    /\ srvInflight' = srvInflight + 1
    /\ UNCHANGED << srvPc, srvOutcome, srvSignalled >>
    /\ ServerFrame

\* The accept loop takes the shutdown branch and accepts no more.
SrvStopAccepting ==
    /\ srvPc = "serving"
    /\ srvSignalled
    /\ srvPc' = "closing"
    /\ UNCHANGED << srvOutcome, srvSignalled, srvInflight, srvServed >>
    /\ ServerFrame

\* A request in flight is answered.
SrvRespond ==
    /\ srvPc \in {"serving", "closing"}
    /\ srvInflight > 0
    /\ srvInflight' = srvInflight - 1
    /\ UNCHANGED << srvPc, srvOutcome, srvSignalled, srvServed >>
    /\ ServerFrame

\* axum::serve(..).with_graceful_shutdown(..).await returns once every
\* connection is done; start_http_server returns.
SrvReturn ==
    /\ srvPc = "closing"
    /\ srvInflight = 0
    /\ srvPc' = "returned"
    /\ srvOutcome' = "shutdown"
    /\ UNCHANGED << srvSignalled, srvInflight, srvServed >>
    /\ ServerFrame

ServerNext ==
    \/ Cancel
    \/ SrvBind
    \/ WcPoll
    \/ SrvBound
    \/ SrvSignal
    \/ SrvAccept
    \/ SrvStopAccepting
    \/ SrvRespond
    \/ SrvReturn

ServerSpec == ServerInit /\ [][ServerNext]_vars

\* --------------------------------------------- the conversions by themselves
\* What a state or mode column may hold that the dispatcher did not write.
UnknownStateStrings == {"", "Created", "PROCESSING", "done"}
\* The largest integer tried as a mode column.
MaxModeValue == 3
StateStrings == DispatchState \cup UnknownStateStrings
ModeIntegers == 0 .. MaxModeValue

\* A value of each enum in memory, and a row whose state and mode columns
\* hold anything.
CodecInit ==
    /\ now = StartHour
    /\ procs = << >>
    /\ split = FALSE
    /\ sources = SourcesTable
    /\ map = [k \in SourceIds |-> 0]
    /\ strong = [h \in HandleIds |-> 0]
    /\ held = [c \in Holders |-> 0]
    /\ since_scan = {}
    /\ cleanPc = "unspawned"
    /\ dead_keys = {}
    /\ sigPc = "unspawned"
    /\ tail = 0
    /\ schedPc = "unspawned"
    /\ schedRx = 0
    /\ schedStream = << >>
    /\ schedSource = 0
    /\ schedLog = "none"
    /\ asgPc = [a \in SupervisorIds |-> "idle"]
    /\ asgStream = [a \in SupervisorIds |-> << >>]
    /\ asgSource = [a \in SupervisorIds |-> 0]
    /\ asgRow = [a \in SupervisorIds |-> NoRow]
    /\ claimed = {}
    /\ token = FALSE
    /\ wcPc = "idle"
    /\ wcOp = [polls |-> 0, outcome |-> Ok("success")]
    /\ wcEffects = 0
    /\ wcResult = Ok("")
    /\ wcAfter = FALSE
    /\ mainPc = "serving"
    /\ hPc = "idle"
    /\ hSup = 0
    /\ hRes = AssignOk(None)
    /\ hResp = NoResponse
    /\ \E state \in DispatchStateVariants, state_string \in StateStrings,
          mode \in ProcessingModeVariants, mode_int \in ModeIntegers :
            codec = Codec(state, state_string, "db", NoVariant,
                          mode, mode_int, "db", NoVariant)
    /\ srvPc = "unstarted"
    /\ srvOutcome = "none"
    /\ srvSignalled = FALSE
    /\ srvInflight = 0
    /\ srvServed = 0

CodecFrame ==
    UNCHANGED << now, dbVars, mutexVars, cleanVars, cancelVars, mainPc, handlerVars,
                 serverVars, signalVars, schedVars, asgVars >>

\* .bind(state.to_string()): the state column takes the written string.
CodecWriteState ==
    /\ codec' = [codec EXCEPT !.state_string = DispatchState_to_string(codec.state),
                              !.state_from = "to_string",
                              !.state_parsed = NoVariant]
    /\ CodecFrame

\* DispatchState::new(state) on the state column of a row read.
CodecReadState ==
    /\ codec.state_parsed = NoVariant
    /\ codec' = [codec EXCEPT !.state_parsed = DispatchState_new(codec.state_string)]
    /\ CodecFrame

\* .bind(u8::from(processing_mode)): the mode column takes the written integer.
CodecWriteMode ==
    /\ codec' = [codec EXCEPT !.mode_int = u8_from(codec.mode),
                              !.mode_from = "u8_from",
                              !.mode_parsed = NoVariant]
    /\ CodecFrame

\* ProcessingMode::new(processing_mode as isize) on the mode column of a row read.
CodecReadMode ==
    /\ codec.mode_parsed = NoVariant
    /\ codec' = [codec EXCEPT !.mode_parsed = ProcessingMode_new(codec.mode_int)]
    /\ CodecFrame

CodecNext ==
    \/ CodecWriteState
    \/ CodecReadState
    \/ CodecWriteMode
    \/ CodecReadMode

CodecSpec == CodecInit /\ [][CodecNext]_vars

\* -------------------------------------------------------------------- Spec
Next ==
    \/ AdvanceClock
    \/ ExternalSetState
    \/ Signal
    \/ SignalSend
    \/ SchedSubscribe
    \/ SchedOpenStream
    \/ SchedNext
    \/ SchedLatest
    \/ SchedInsert
    \/ \E a \in SupervisorIds : AsgCall(a)
    \/ \E a \in SupervisorIds : AsgSourcesFirst(a)
    \/ \E a \in SupervisorIds : AsgSourcesNext(a)
    \/ \E a \in SupervisorIds : AsgProcesses(a)
    \/ \E a \in SupervisorIds : AsgAssign(a)

Spec == Init /\ [][Next]_vars

\* ================================================================== claims
\* The Europe/Berlin calendar day of a stored created_at (UTC hours), and
\* the terminal states, as the specification words them.
BerlinDay(t) == (t + 2) \div 24
Terminal(state) == state = "completed" \/ state = "failed"

\* The scheduler is between LatestProcess and the end of InsertProcess for
\* source s; an assigner is between opening the processes stream and the end
\* of the assignment write for source s.
SchedInSection(s) == schedPc \in {"latest", "insert"} /\ schedSource = s
AsgInSection(a, s) == asgPc[a] \in {"processes", "assign"} /\ asgSource[a] = s

\* C1: no process uuid is returned as a successful claim to the calls of two
\* different supervisors (stated for the configuration in which both pools
\* name the same database; with different databases the assignment write
\* never reaches the table the candidates are read from).
C1_NoDoubleClaim ==
    ~ split => \A p, q \in claimed : p[2] = q[2] => p[1] = q[1]

\* C2: the critical sections on one source id never overlap in time: not the
\* scheduler's with an assigner's, and not those of two assigners.
C2_SectionsDisjoint ==
    \A s \in SourceIds :
        /\ \A a \in SupervisorIds : ~ (SchedInSection(s) /\ AsgInSection(a, s))
        /\ \A a, b \in SupervisorIds :
              a # b => ~ (AsgInSection(a, s) /\ AsgInSection(b, s))

\* C3: no two processes of one source have created_at on the same
\* Europe/Berlin calendar day unless the earlier one is non-terminal.
C3_OnePerBerlinDay ==
    \A i, j \in 1 .. Len(procs) :
        ( /\ i # j
          /\ procs[i].source_id = procs[j].source_id
          /\ BerlinDay(procs[i].created_at) = BerlinDay(procs[j].created_at)
          /\ procs[i].created_at <= procs[j].created_at
          /\ i < j )
        => ~ Terminal(procs[i].state)

\* C3 witness: scheduler ticks have created two processes of one source, the
\* earlier one terminal, on different Berlin days.
C3_Witness ==
    \E i, j \in 1 .. Len(procs) :
        /\ i < j
        /\ procs[i].source_id = procs[j].source_id
        /\ Terminal(procs[i].state)
        /\ BerlinDay(procs[i].created_at) < BerlinDay(procs[j].created_at)

\* The newest processes of source s in the table.
NewestOf(s) ==
    { r \in RowsOf(procs) :
        /\ r.source_id = s
        /\ \A q \in RowsOf(procs) : q.source_id = s => q.created_at <= r.created_at }

\* C4: the per-source decision. When the LatestProcess query answers, the
\* scheduler goes on to insert only if the source has no process or its
\* latest one is terminal and of another Berlin day than today, and it skips
\* only if the latest one is non-terminal or terminal and of today; the
\* insert adds exactly one process (created, regular, unassigned, of that
\* source) and a skip adds none.
C4_DecisionStep ==
    /\ (schedPc = "latest" /\ schedPc' = "insert") =>
          \/ NewestOf(schedSource) = {}
          \/ \E r \in NewestOf(schedSource) :
                Terminal(r.state) /\ BerlinDay(r.created_at) # BerlinDay(now)
    /\ (schedPc = "latest" /\ schedPc' = "next" /\ schedLog' = "skipped") =>
          /\ procs' = procs
          /\ \E r \in NewestOf(schedSource) :
                \/ ~ Terminal(r.state)
                \/ BerlinDay(r.created_at) = BerlinDay(now)
    /\ (schedPc = "insert" /\ schedPc' = "next" /\ schedLog' = "inserted") =>
          /\ Len(procs') = Len(procs) + 1
          /\ SubSeq(procs', 1, Len(procs)) = procs
          /\ procs'[Len(procs')].source_id = schedSource
          /\ procs'[Len(procs')].state = "created"
          /\ procs'[Len(procs')].mode = 1
          /\ procs'[Len(procs')].supervisor_id = NULL
    /\ (schedPc = "latest" /\ schedPc' # "latest") => procs' = procs
    /\ (schedPc = "insert" /\ schedPc' = "next" /\ schedLog' # "inserted") =>
          procs' = procs

C4_Decision == [][C4_DecisionStep]_vars

\* C4 witness: a process was inserted after a terminal one of an earlier
\* day, and a later decision skipped the source.
C4_Witness ==
    /\ schedLog = "skipped"
    /\ Len(procs) = 2
    /\ Terminal(procs[1].state)
    /\ procs[1].source_id = procs[2].source_id

\* C5: no process row has supervisor_id NULL together with state processing.
C5_NoUnownedProcessing ==
    \A i \in 1 .. Len(procs) :
        ~ (procs[i].supervisor_id = NULL /\ procs[i].state = "processing")

\* C5 witness: an assignment has written a row.
C5_Witness ==
    \E i \in 1 .. Len(procs) :
        procs[i].state = "processing" /\ procs[i].supervisor_id # NULL

\* C6: at most one handle of a key is alive at a time: two callers that
\* hold a handle of the same key hold the same handle.
C6_OneLiveHandlePerKey ==
    \A c, d \in Holders :
        (held[c] # 0 /\ held[d] # 0 /\ KeyOf(c) = KeyOf(d)) => held[c] = held[d]

\* C7: a with_cancellation call that starts after the token was cancelled
\* never polls the wrapped operation and resolves to the Cancelled error.
C7_CancelledBeforeEffects ==
    wcAfter =>
        /\ wcEffects = 0
        /\ wcPc = "done" => wcResult = [kind |-> "Err", variant |-> "Cancelled", val |-> ""]

\* C8: while the token is not cancelled, a completed with_cancellation call
\* returned the wrapped operation's outcome: an Ok value unchanged, an error
\* as that error in the target type, never Cancelled.
C8_OutcomeUnchanged ==
    (wcPc = "done" /\ ~ token) =>
        /\ wcOp.outcome.kind = "Ok" => wcResult = wcOp.outcome
        /\ wcOp.outcome.kind = "Err" =>
              wcResult = [kind |-> "Err", variant |-> "Custom", val |-> wcOp.outcome.val]

\* C8 witness: with the token never cancelled, an operation that was Pending
\* at first completed with an error, and the call returned.
C8_Witness ==
    /\ wcPc = "done"
    /\ ~ token
    /\ wcEffects > 1
    /\ wcOp.outcome.kind = "Err"

\* C9: the cancellation signal is a one-shot latch: unset at first, set by
\* the signal task's send on the first signal, and never unset or set again
\* by a later signal.
C9_LatchStep ==
    /\ tail' # tail => (tail = 0 /\ tail' = 1 /\ sigPc = "got")
    /\ tail = 1 => tail' = 1
    /\ sigPc = "done" => (sigPc' = "done" /\ tail' = tail)

C9_OneShotLatch == tail = 0 /\ [][C9_LatchStep]_vars

\* C9 witness: a signal arrived and the latch was set.
C9_Witness == sigPc = "done" /\ tail = 1

\* C10: once the latch is set, the Wait of every observer that has begun to
\* observe is ready, also of one that began after the signal.
C10_NoMissedCancellation ==
    (tail > 0 /\ schedPc \in {"relaunch", "next", "latest", "insert"})
        => RecvReady(schedRx)

\* C11: a signal delivered after startup leads to the scheduler's relaunch
\* loop having exited and main having returned (which it does only once the
\* HTTP server stopped).
C11_SignalLeadsToExit ==
    (sigPc \in {"got", "done"}) ~> (schedPc = "stopped" /\ mainPc = "exited")

\* C12: starting the cleanup task does not block startup: the scheduler
\* eventually begins its first tick and main eventually reaches
\* start_http_server.
C12_StartupCompletes ==
    /\ <>(schedPc \in {"relaunch", "next", "latest", "insert"})
    /\ <>(mainPc = "serving")

C14_StatusOneToOne ==
    hPc = "responded" =>
        /\ hResp.status = "OK" <=> (~ hRes.is_err /\ hRes.option.some)
        /\ hResp.status = "NO_CONTENT" <=> (~ hRes.is_err /\ ~ hRes.option.some)
        /\ hResp.status = "INTERNAL_SERVER_ERROR" <=> hRes.is_err
        /\ hResp.status = "OK" => hResp.json = serde_json(hRes.option.process)

\* C14 witness: an empty result was answered.
C14_Witness == hPc = "responded" /\ ~ hRes.is_err /\ ~ hRes.option.some

\* The spec's notion: created or pending without a supervisor.
Candidate(row) ==
    row.state \in {"created", "pending"} /\ row.supervisor_id = NULL

\* The spec's notion: a candidate, or an error row of the same supervisor.
ClaimableBy(row, S) ==
    Candidate(row) \/ (row.state = "error" /\ row.supervisor_id = S)

\* A request served alone has returned the given kind of result.
ReturnedEmpty == hPc = "called" /\ ~ hRes.is_err /\ ~ hRes.option.some
ReturnedClaim == hPc = "called" /\ ~ hRes.is_err /\ hRes.option.some

\* C15: a call served alone (one process store) returns empty only when the
\* table holds no created or pending row without a supervisor.
C15_EmptyOnlyWithoutCandidate ==
    (~ split /\ ReturnedEmpty) => \A i \in 1 .. Len(procs) : ~ Candidate(procs[i])

\* C16: the row a call served alone claims is the oldest row claimable by the
\* caller: no other row claimable by it has an earlier created_at.
C16_OldestClaimableWins ==
    (~ split /\ ReturnedClaim) =>
        \A i \in 1 .. Len(procs) :
            (procs[i].uuid # hRes.option.process.id /\ ClaimableBy(procs[i], hSup))
                => procs[i].created_at >= hRes.option.process.created_at

\* C17: an error row of the caller is claimable by it: a call served alone
\* does not return empty while such a row exists; and no call assigns an
\* error row of another supervisor.
C17_OwnErrorRowClaimable ==
    /\ (~ split /\ ReturnedEmpty) =>
          \A i \in 1 .. Len(procs) :
              ~ (procs[i].state = "error" /\ procs[i].supervisor_id = hSup)
    /\ \A a \in SupervisorIds :
          asgPc[a] = "assign" =>
              ~ (asgRow[a].state = "error" /\ asgRow[a].supervisor_id # a)

\* C18: a claim a call returns describes a row that call wrote: the value
\* has the uuid and source_id of a stored row, state processing and the
\* caller as supervisor, and that row is stored as processing with the
\* caller as supervisor; the row the call read was non-terminal and had no
\* supervisor.
C18_ClaimDescribesWrittenRow ==
    /\ ReturnedClaim =>
          /\ hRes.option.process.state = Processing
          /\ hRes.option.process.supervisor_id = hSup
          /\ \E i \in 1 .. Len(procs) :
                /\ procs[i].uuid = hRes.option.process.id
                /\ procs[i].source_id = hRes.option.process.source_id
                /\ procs[i].state = "processing"
                /\ procs[i].supervisor_id = hSup
    /\ \A a \in SupervisorIds :
          asgPc[a] = "assign" =>
              (~ Terminal(asgRow[a].state) /\ asgRow[a].supervisor_id = NULL)

\* C19: a call issues at most one assignment write and claims at most one
\* process: the step that leaves the write ends the call, a step changes the
\* table only as that write and in one row, and adds at most one claim.
C19_OneWriteStep ==
    /\ \A a \in SupervisorIds :
          (asgPc[a] = "assign" /\ asgPc'[a] # "assign") => asgPc'[a] = "idle"
    /\ procs' # procs =>
          /\ \E a \in SupervisorIds : asgPc[a] = "assign" /\ asgPc'[a] = "idle"
          /\ Len(procs') = Len(procs)
          /\ Cardinality({ i \in 1 .. Len(procs) : procs'[i] # procs[i] }) = 1
    /\ Cardinality(claimed' \ claimed) <= 1

C19_AtMostOneWrite == [][C19_OneWriteStep]_vars

\* C19 witness: the source stream held the claimed row's source twice (a
\* second candidate of that source is still unassigned) and the call
\* returned one claim.
C19_Witness ==
    /\ ReturnedClaim
    /\ \E i \in 1 .. Len(procs) :
          /\ procs[i].uuid # hRes.option.process.id
          /\ procs[i].source_id = hRes.option.process.source_id
          /\ Candidate(procs[i])

\* C20: a scheduler tick inserts rows only for source ids whose status is
\* 'run'; every row it inserts has state created, mode regular (1) and
\* supervisor_id NULL; and with no 'run' source the scheduler never reaches
\* process_source, inserts nothing, logs no source error, and a tick whose
\* stream read does not fail ends as "Cycle completed successfully".
NoRunSource == \A s \in SourceIds : sources[s] # "run"

C20_TickStep ==
    /\ Len(procs') > Len(procs) =>
          /\ Len(procs') = Len(procs) + 1
          /\ SubSeq(procs', 1, Len(procs)) = procs
          /\ sources[procs'[Len(procs')].source_id] = "run"
          /\ procs'[Len(procs')].state = "created"
          /\ procs'[Len(procs')].mode = 1
          /\ procs'[Len(procs')].supervisor_id = NULL
    /\ NoRunSource =>
          /\ procs' = procs
          /\ schedPc' \notin {"latest", "insert"}
          /\ schedLog' \notin {"error", "skipped", "inserted"}
          /\ (schedPc = "next" /\ schedPc' = "relaunch" /\ schedLog' # "cycle_error")
                => (schedLog' = "cycle_ok" /\ schedStream = << >>)

C20_TickInserts == [][C20_TickStep]_vars

\* A row was inserted under a table with a 'stop' source, and under the
\* table without a 'run' source a tick ended successfully.
C20_Witness ==
    /\ schedLog = "inserted"
    /\ Len(procs) = 1
    /\ \E s \in SourceIds : sources[s] = "stop"

C20_WitnessNoRun == NoRunSource /\ schedLog = "cycle_ok" /\ schedPc = "relaunch"

\* C21: the scheduler's relaunch loop ends only on TerminatingSignalReceived:
\* the task stops only in a step in which a tick returned it, a stopped task
\* never starts a tick again, and a tick that ended with DbError or with Ok
\* leaves the task at the head of the loop, where the next tick starts.
TickEnded ==
    /\ schedPc \in {"relaunch", "next"}
    /\ schedPc' \in {"relaunch", "stopped"}
    /\ schedLog' \in {"shutdown", "cycle_error", "cycle_ok"}
    /\ schedPc = "relaunch" => schedPc' = "stopped"

C21_LoopStep ==
    /\ schedPc = "stopped" => (schedPc' = "stopped" /\ Len(procs') = Len(procs)
                               /\ UNCHANGED << schedStream, schedSource >>)
    /\ (schedPc # "stopped" /\ schedPc' = "stopped") => (TickEnded /\ schedLog' = "shutdown")
    /\ (TickEnded /\ schedLog' = "shutdown") => schedPc' = "stopped"
    /\ (TickEnded /\ schedLog' \in {"cycle_error", "cycle_ok"}) => schedPc' = "relaunch"
    /\ schedPc = "relaunch" => schedPc' \in {"relaunch", "next", "stopped"}

C21_LoopEndsOnlyOnSignal == [][C21_LoopStep]_vars

\* A tick is running after the tick before it ended with DbError.
C21_Witness == schedPc = "next" /\ schedLog = "cycle_error"

\* C22: after insert_new_process(source_id, ..) returned uuid u, and as long
\* as no later insert for that source happened, get_latest_process_for of
\* the source answers the row whose uuid is u and no other row.
LastInserted(s) ==
    LET I == { i \in 1 .. Len(procs) : procs[i].source_id = s }
    IN  procs[CHOOSE i \in I : \A j \in I : j <= i]

C22_LatestIsLastInserted ==
    \A s \in SourceIds :
        (\E r \in RowsOf(procs) : r.source_id = s) =>
            /\ get_latest_process_for(s) = { LastInserted(s) }
            /\ \A r \in get_latest_process_for(s) : r.uuid = LastInserted(s).uuid

\* The scheduler has just inserted the second row of a source.
C22_Witness ==
    /\ schedLog = "inserted"
    /\ Len(procs) = 2
    /\ procs[1].source_id = procs[2].source_id

\* C23: in the 200 response of a successful claim the state field is the
\* string "processing", spelled as the state stored in the database row is,
\* and id and supervisor_id are the process uuid and the caller's supervisor
\* uuid.
C23_ResponseBody ==
    (hPc = "responded" /\ hResp.status = "OK") =>
        /\ hResp.json.state = "processing"
        /\ hResp.json.state = DispatchState_to_string(hRes.option.process.state)
        /\ hResp.json.id = hRes.option.process.id
        /\ hResp.json.supervisor_id = hSup

\* The other fields of the 200 response: id and supervisor_id are the claimed
\* process and the caller.
C23_IdsOnly ==
    (hPc = "responded" /\ hResp.status = "OK") =>
        /\ hResp.json.id = hRes.option.process.id
        /\ hResp.json.supervisor_id = hSup

\* C24: state and mode round-trip unchanged. Parsing the string written for
\* a state gives that state, and parsing the integer written for a mode gives
\* that mode; each of the six state strings parses to the state written as
\* that string and each mode integer to the mode written as it; any other
\* string or integer ends in a panic and is never taken for a valid value.
C24_RoundTrip ==
    /\ (codec.state_from = "to_string" /\ codec.state_parsed # NoVariant)
          => codec.state_parsed = codec.state
    /\ (codec.mode_from = "u8_from" /\ codec.mode_parsed # NoVariant)
          => codec.mode_parsed = codec.mode
    /\ codec.state_parsed # NoVariant =>
          IF codec.state_string \in {"created", "pending", "processing", "error",
                                     "completed", "failed"}
          THEN /\ codec.state_parsed \in DispatchStateVariants
               /\ DispatchState_to_string(codec.state_parsed) = codec.state_string
          ELSE codec.state_parsed.enum = "panic"
    /\ codec.mode_parsed # NoVariant =>
          IF codec.mode_int \in {1, 2}
          THEN /\ codec.mode_parsed \in ProcessingModeVariants
               /\ u8_from(codec.mode_parsed) = codec.mode_int
          ELSE codec.mode_parsed.enum = "panic"
    /\ \A s \in DispatchStateVariants : DispatchState_new(DispatchState_to_string(s)) = s
    /\ \A m \in ProcessingModeVariants : ProcessingMode_new(u8_from(m)) = m

\* The state Error and the mode Sandbox were written and read back.
C24_Witness ==
    /\ codec.state = Error /\ codec.state_from = "to_string" /\ codec.state_parsed = Error
    /\ codec.mode = Sandbox /\ codec.mode_from = "u8_from" /\ codec.mode_parsed = Sandbox

\* An unknown state string and an unknown mode integer were read.
C24_WitnessRejected ==
    /\ codec.state_from = "db" /\ codec.state_string = "PROCESSING"
    /\ codec.state_parsed.enum = "panic"
    /\ codec.mode_from = "db" /\ codec.mode_int = 0
    /\ codec.mode_parsed.enum = "panic"

\* C25: cleanup removes from the map only entries whose handle has no live
\* holder at the moment of removal: no step takes away the entry of a key
\* while a caller still holds the handle the entry refers to.
C25_RemoveStep ==
    \A k \in SourceIds :
        (map[k] # 0 /\ map'[k] = 0) =>
            /\ ~ Upgrades(map[k])
            /\ \A c \in Holders : held[c] # map[k]

C25_RemovesOnlyDead == [][C25_RemoveStep]_vars

\* The step in which a cleanup() call returns: its scan found nothing, or its
\* last collected key was removed.
CleanupReturns ==
    /\ cleanPc' = "remove" /\ dead_keys' = {}
    /\ cleanPc = "scan" \/ dead_keys # {}

\* When cleanup() returns, no entry of the map is dead and the map has at
\* most as many entries as keys are held.
CleanAfterReturn ==
    /\ \A k \in SourceIds : map'[k] # 0 => strong'[map'[k]] > 0
    /\ Cardinality({ k \in SourceIds : map'[k] # 0 })
          <= Cardinality({ k \in SourceIds : \E c \in Holders : held'[c] = map'[k] /\ map'[k] # 0 })

\* get_mutex(k) on a key no caller holds a handle of gives the caller a handle
\* nobody else owns, installed as the key's entry, whether the key's old
\* entry is still in the map or cleanup took it away.
AcquireOfDroppedIsFresh ==
    \A c \in Holders : \A k \in SourceIds :
        (held[c] = 0 /\ held'[c] # 0 /\ map'[k] = held'[c] /\ ~ Upgrades(map[k])) =>
            /\ strong'[held'[c]] = 1
            /\ \A d \in Holders \ {c} : held'[d] # held'[c]

\* C26, as stated: after a cleanup() run that is not interleaved with any
\* get_mutex the map holds no entry whose handle has no live holder, so it
\* has at most as many entries as keys are held; and get_mutex(k) on a key
\* whose handle all holders dropped returns a fresh handle, with or without
\* a cleanup in between.
C26_AsStatedStep ==
    /\ (CleanupReturns /\ "get_mutex" \notin since_scan') => CleanAfterReturn
    /\ AcquireOfDroppedIsFresh

C26_AsStated == [][C26_AsStatedStep]_vars

\* C26, amended: the same for a cleanup() run that is interleaved neither
\* with a get_mutex nor with the drop of a handle.
C26_CleanStep ==
    /\ (CleanupReturns /\ since_scan' = {}) => CleanAfterReturn
    /\ AcquireOfDroppedIsFresh

C26_CleanAfterQuietRun == [][C26_CleanStep]_vars

\* A cleanup() run that nothing interleaved has returned: a key's entry is
\* gone while another key is held.
C26_Witness ==
    /\ cleanPc = "remove" /\ dead_keys = {} /\ since_scan = {}
    /\ map[1] = 0 /\ map[2] # 0 /\ strong[map[2]] > 0
    /\ \E h \in HandleIds : strong[h] = 0 /\ h < map[2]

\* C27: cancellation is prompt at the scheduler's next await: once the
\* shutdown message lies at the scheduler's receiver, the next step the
\* scheduler takes returns TerminatingSignalReceived, so that it starts no
\* get_latest_process_for and no insert_new_process after the signal.
SchedulerSteps == << schedPc, schedRx, schedStream, schedSource, schedLog >>' # schedVars

C27_PromptStep ==
    (RecvReady(schedRx) /\ schedPc \in {"relaunch", "next", "latest", "insert"}
       /\ SchedulerSteps)
        => /\ schedPc' = "stopped"
           /\ schedLog' = "shutdown"
           /\ Len(procs') = Len(procs)

C27_PromptCancellation == [][C27_PromptStep]_vars

\* C28: the HTTP server's lifecycle. If the bind fails or is cancelled,
\* start_http_server returns having served no request; if cancellation fired
\* before the bind completed, no request is ever served; otherwise the
\* server serves until the token is cancelled, accepts no request after
\* that, and returns only when the requests in flight are answered.
C28_LifecycleStep ==
    /\ srvServed' > srvServed => ~ token
    /\ srvOutcome' \in {"bind_cancelled", "bind_failed"} => (srvServed' = 0 /\ srvPc' = "returned")
    /\ (srvPc = "serving" /\ srvPc' # "serving") => token
    /\ (srvPc # "returned" /\ srvPc' = "returned" /\ srvOutcome' = "shutdown")
          => (token /\ srvInflight = 0)
    /\ srvPc = "returned" => UNCHANGED << srvPc, srvServed, srvInflight >>

C28_ServerLifecycle == [][C28_LifecycleStep]_vars

\* What of C28 holds: a failed or cancelled bind serves nothing, the server
\* leaves its accept loop only after the token was cancelled, it returns
\* only with no request in flight, and after it returned nothing is served.
C28_WithoutAcceptStep ==
    /\ srvOutcome' \in {"bind_cancelled", "bind_failed"} => (srvServed' = 0 /\ srvPc' = "returned")
    /\ (srvPc = "serving" /\ srvPc' # "serving") => token
    /\ (srvPc # "returned" /\ srvPc' = "returned" /\ srvOutcome' = "shutdown")
          => (token /\ srvInflight = 0)
    /\ srvPc = "returned" => UNCHANGED << srvPc, srvServed, srvInflight >>

C28_WithoutAccept == [][C28_WithoutAcceptStep]_vars

\* The bind was called with the token already cancelled, and a request was
\* accepted all the same.
C28_ServedAfterCancelledBind == ~ (wcAfter /\ srvServed > 0)

\* C29: an assign_process call changes at most one row, and in it only
\* supervisor_id and state; uuid, source_id, mode and created_at of a stored
\* row are changed by no step of the scheduler or of an assigner; and a call
\* changes a row only in the step in which it returns that row as its claim
\* (one that returns empty or with an error has changed none).
\* C30: within one scheduler tick an error of process_source (the latest
\* process query or the insert failing) is logged and does not end the tick:
\* the scheduler goes on to the next pull with the remaining source ids of
\* the stream untouched; the tick ends with DbError only in the step that
\* pulls from the source stream.
C30_TickStep ==
    SchedulerSteps =>
        /\ schedPc \in {"latest", "insert"} =>
              /\ schedPc' \in {"insert", "next"}
              /\ schedLog' \in {schedLog, "error", "skipped", "inserted"}
              /\ schedStream' = schedStream
        /\ (schedPc \in {"latest", "insert"} /\ schedLog' = "error"
              /\ schedPc' # "insert") =>
              /\ schedPc' = "next"
              /\ schedSource' = schedSource
        /\ (schedPc' = "relaunch" /\ schedLog' = "cycle_error") =>
              schedPc = "next"

C30_SourceErrorKeepsTick == [][C30_TickStep]_vars

\* The first source of the tick failed and the second one is being processed.
C30_Witness ==
    /\ schedLog = "error"
    /\ schedPc = "latest"
    /\ schedSource = 2
    /\ \A s \in SourceIds : sources[s] = "run"

AssignerSteps(a) == asgPc'[a] # asgPc[a]

C29_FrameStep ==
    /\ Len(procs') >= Len(procs)
    /\ \A i \in 1 .. Len(procs) :
          /\ procs'[i].uuid = procs[i].uuid
          /\ procs'[i].source_id = procs[i].source_id
          /\ procs'[i].mode = procs[i].mode
          /\ procs'[i].created_at = procs[i].created_at
    /\ \A a \in SupervisorIds :
          AssignerSteps(a) =>
              /\ Len(procs') = Len(procs)
              /\ Cardinality({ i \in 1 .. Len(procs) : procs'[i] # procs[i] }) <= 1
              /\ asgPc[a] # "assign" => procs' = procs
              /\ \A i \in 1 .. Len(procs) :
                    procs'[i] # procs[i] =>
                        /\ asgPc'[a] = "idle"
                        /\ << a, procs[i].uuid >> \in claimed'

C29_AssignFrame == [][C29_FrameStep]_vars

\* A row inserted at an earlier hour was claimed: it carries the claimant and
\* the state processing, and its created_at is not the hour of the write.
C29_Witness ==
    \E i \in 1 .. Len(procs) :
        /\ procs[i].state = "processing"
        /\ procs[i].supervisor_id \in SupervisorIds
        /\ << procs[i].supervisor_id, procs[i].uuid >> \in claimed
        /\ procs[i].created_at < now

\* The rows of a source whose state is not terminal (completed or failed).
NonTerminalRows(source_id) ==
    { i \in 1 .. Len(procs) :
        procs[i].source_id = source_id /\ ~ is_finished(procs[i].state) }

\* C31: starting from an empty process table, with the scheduler as the only
\* inserter and external state changes that never make a terminal process
\* active again, every reachable state has at most one non-terminal process
\* per source_id.
C31_OneActivePerSource ==
    \A s \in SourceIds : Cardinality(NonTerminalRows(s)) <= 1

\* A row the assigner's two candidate queries lead to: every answer of the
\* sources query names its source, and some answer of the processes query of
\* that source is the row.
VisibleToAssigner(row) ==
    /\ \A a \in SupervisorIds :
          \A list \in get_available_processes_sources_stream(a, SourcesLimit) :
              \E k \in 1 .. Len(list) : list[k] = row.source_id
    /\ \E list \in get_available_source_processes_stream(row.source_id, ProcessesLimit) :
          \E k \in 1 .. Len(list) : list[k] = row

\* C32: a process inserted by the scheduler is visible to the assigner: the
\* candidate queries read the store that insert_new_process and the
\* assignment write modify, so every stored row that is created and
\* unassigned is a row the candidate queries return to a calling supervisor.
C32_InsertedIsVisible ==
    \A i \in 1 .. Len(procs) :
        (procs[i].state = DISPATCH_STATE_CREATED /\ procs[i].supervisor_id = NULL)
            => VisibleToAssigner(procs[i])

\* The scheduler is inside its per-source step (between get_mutex and drop).
SchedulerInFlight == schedPc \in {"latest", "insert"}

\* An assign_process call of supervisor a is in flight.
AssignerInFlight(a) == asgPc[a] # "idle"

\* C33: every owned handle reference the scheduler or an assigner obtained
\* from the keyed mutex is released on every exit path: a holder outside its
\* per-source step or call owns no reference, and when no scheduler
\* per-source step and no assign_process call is in flight no key has a
\* live holder.
C33_ReleasedOnEveryExit ==
    /\ ~ SchedulerInFlight => held[Scheduler] = 0
    /\ \A a \in SupervisorIds : ~ AssignerInFlight(a) => held[a] = 0
    /\ (~ SchedulerInFlight /\ \A a \in SupervisorIds : ~ AssignerInFlight(a)) =>
          /\ \A k \in SourceIds : ~ Upgrades(map[k])
          /\ \A h \in HandleIds : strong[h] = 0

\* Nothing is in flight after a claim was returned and a per-source step of
\* the scheduler ended with an error, and the key's entry is still in the map.
C33_Witness ==
    /\ ~ SchedulerInFlight
    /\ \A a \in SupervisorIds : ~ AssignerInFlight(a)
    /\ claimed # {}
    /\ schedLog = "error"
    /\ \E k \in SourceIds : map[k] # 0

=============================================================================
